---- MODULE Spec2Model ----
(***************************************************************************)
(* A model of the refinement-types crate: the Predicate capability, the    *)
(* logical combinators of logic.rs, the integer comparison and interval    *)
(* predicates of int/macros.rs, and the Refinement / Error container of    *)
(* core.rs, instantiated at a small signed integer type.                   *)
(*                                                                         *)
(* Type-level predicates are tagged tuples (<<"And", P, Q>>, <<"Less", N>>)*)
(* and so are the failure values (<<"Left", e>>, <<"LessError", N>>).      *)
(* A Result<(), E> is <<"Ok">> or <<"Err", e>>.                            *)
(***************************************************************************)
EXTENDS Integers, Sequences, FiniteSets, Bags, TLC

VARIABLES
    P,              \* the predicate type parameter of Refinement<T, P, C>
    C,              \* the context type parameter, as its label C::VALUE
    unsafe_assert,  \* whether the crate is built with feature "unsafe-assert"
    refs,           \* the bag of live Refinement values
    res,            \* what the last operation returned to its caller
    tainted         \* whether an unsafe (unchecked) operation has been called

vars == <<P, C, unsafe_assert, refs, res, tainted>>

----------------------------------------------------------------------------
(* Bounds of the model. *)

\* the values handed to the operations are -MaxAbs .. MaxAbs
MaxAbs == 2

\* number of Refinement values that can be live at the same time
MaxLive == 2

----------------------------------------------------------------------------
(* The integer type T: i8. *)

\* width in bits of i8
IntBits == 8

RECURSIVE Pow2(_)
Pow2(n) == IF n = 0 THEN 1 ELSE 2 * Pow2(n - 1)

IntMin == 0 - Pow2(IntBits - 1)
IntMax == Pow2(IntBits - 1) - 1

\* the values the container operations are called with
Values == (0 - MaxAbs) .. MaxAbs

\* two's complement wrap-around of the integer type
Wrap(x) == ((x - IntMin) % Pow2(IntBits)) + IntMin

\* T::default() of an integer type
DefaultValue == 0

----------------------------------------------------------------------------
(* Type-level strings: the context labels. *)

\* type_str!(pub NoContext = "no context"): the default context
NoContext == "no context"

\* the contexts a Refinement type is labelled with: the default one and one
\* lifted by type_str!
Contexts == {NoContext, "user input"}

----------------------------------------------------------------------------
(* Result<(), E> and the Result combinators the predicates use. *)

Ok == <<"Ok">>
Err(e) == <<"Err", e>>
IsOk(r) == r[1] = "Ok"
IsErr(r) == r[1] = "Err"
ErrOf(r) == r[2]

----------------------------------------------------------------------------
(* Failure types. *)

AlwaysError == <<"AlwaysError">>
Left(e) == <<"Left", e>>
Right(f) == <<"Right", f>>
BothError(l, r) == <<"BothError", l, r>>
NotError == <<"NotError">>
Neither == <<"Neither">>
Both(b) == <<"Both", b>>
CompareError(name, other) == <<name, other>>

----------------------------------------------------------------------------
(* Predicate types. *)

True == <<"True">>
False == <<"False">>
And(p, q) == <<"And", p, q>>
Or(p, q) == <<"Or", p, q>>
Not(p) == <<"Not", p>>
Xor(p, q) == <<"Xor", p, q>>

Less(n) == <<"Less", n>>
LessOrEqual(n) == <<"LessOrEqual", n>>
Greater(n) == <<"Greater", n>>
GreaterOrEqual(n) == <<"GreaterOrEqual", n>>
Equal(n) == <<"Equal", n>>
NotEqual(n) == <<"NotEqual", n>>

CompareNames == {"Less", "LessOrEqual", "Greater", "GreaterOrEqual", "Equal", "NotEqual"}

Open(m, n) == And(Greater(m), Less(n))
OpenClosed(m, n) == And(Greater(m), LessOrEqual(n))
ClosedOpen(m, n) == And(GreaterOrEqual(m), Less(n))
\* Closed with the two bounds checked in the other order
Closed_UpperFirst(m, n) == And(LessOrEqual(n), GreaterOrEqual(m))

Closed(m, n) == And(GreaterOrEqual(m), LessOrEqual(n))

\* the comparison `*value $operation N` of a compare! predicate
Operation(name, value, n) ==
    CASE name = "Less" -> value < n
      [] name = "LessOrEqual" -> value <= n
      [] name = "Greater" -> value > n
      [] name = "GreaterOrEqual" -> value >= n
      [] name = "Equal" -> value = n
      [] name = "NotEqual" -> value # n

\* the name of the failure type of a compare! predicate ([< $name Error >])
ErrorName(name) ==
    CASE name = "Less" -> "LessError"
      [] name = "LessOrEqual" -> "LessOrEqualError"
      [] name = "Greater" -> "GreaterError"
      [] name = "GreaterOrEqual" -> "GreaterOrEqualError"
      [] name = "Equal" -> "EqualError"
      [] name = "NotEqual" -> "NotEqualError"

CheckTrue(value) == Ok

\* False::check that accepts
CheckFalse_Accepting(value) == Ok

CheckFalse(value) == Err(AlwaysError)

CheckCompare(name, n, value) ==
    IF Operation(name, value, n) THEN Ok ELSE Err(CompareError(ErrorName(name), n))

\* a call that panics instead of returning
Panic == <<"Panic">>

\* int ModuloError::new and length ModuloError::new
ModuloError(divisor, modulo) == <<"ModuloError", divisor, modulo>>

\* Modulo<D, M> of the integer predicates
Modulo(d, m) == <<"Modulo", d, m>>

\* length::Modulo<D, M>
LengthModulo(d, m) == <<"LengthModulo", d, m>>

\* a % whose remainder is never negative
Rem_Floored(value, d) ==
    IF d = 0 \/ (value = IntMin /\ d = -1)
    THEN Panic
    ELSE <<"Some", value % (IF d < 0 THEN 0 - d ELSE d)>>

\* the % of a signed integer type: the divisor must not be zero and the
\* quotient must fit the type, else it panics; the remainder has the sign of
\* the dividend
Rem(value, d) ==
    IF d = 0 \/ (value = IntMin /\ d = -1)
    THEN Panic
    ELSE LET magnitude == (IF value < 0 THEN 0 - value ELSE value)
                            % (IF d < 0 THEN 0 - d ELSE d)
         IN  <<"Some", IF value < 0 THEN 0 - magnitude ELSE magnitude>>

\* the % of usize: the divisor must not be zero, else it panics
RemUnsigned(length, d) ==
    IF d = 0 THEN Panic ELSE <<"Some", length % d>>

\* int Modulo::check
CheckModulo(d, m, value) ==
    LET remainder == Rem(value, d)
    IN  IF remainder = Panic
        THEN Panic
        ELSE IF remainder[2] = m THEN Ok ELSE Err(ModuloError(d, m))

\* length::Modulo::check, given value.length()
CheckLengthModulo(d, m, length) ==
    LET remainder == RemUnsigned(length, d)
    IN  IF remainder = Panic
        THEN Panic
        ELSE IF remainder[2] = m THEN Ok ELSE Err(ModuloError(d, m))

\* the character of a string at a position, as a string of length one
CharAt(string, i) == SubSeq(string, i, i)

\* the characters char::is_whitespace accepts, among those of the model
Whitespace == {" ", "\t"}

\* the characters that are not ASCII, among those of the model
NonAscii == {"é"}

RECURSIVE trim_start(_)
\* str::trim_start
trim_start(string) ==
    IF Len(string) > 0 /\ CharAt(string, 1) \in Whitespace
    THEN trim_start(SubSeq(string, 2, Len(string)))
    ELSE string

RECURSIVE trim_end(_)
\* str::trim_end
trim_end(string) ==
    IF Len(string) > 0 /\ CharAt(string, Len(string)) \in Whitespace
    THEN trim_end(SubSeq(string, 1, Len(string) - 1))
    ELSE string

\* str::trim
trim(string) == trim_end(trim_start(string))

\* str::starts_with, for a string or a character pattern
starts_with(string, pattern) ==
    /\ Len(pattern) <= Len(string)
    /\ SubSeq(string, 1, Len(pattern)) = pattern

\* str::ends_with, for a string or a character pattern
ends_with(string, pattern) ==
    /\ Len(pattern) <= Len(string)
    /\ SubSeq(string, Len(string) - Len(pattern) + 1, Len(string)) = pattern

\* str::contains, for a string or a character pattern
contains(string, pattern) ==
    \E i \in 1 .. (Len(string) + 1) :
        /\ i + Len(pattern) - 1 <= Len(string)
        /\ SubSeq(string, i, i + Len(pattern) - 1) = pattern

\* str::is_ascii
is_ascii(string) == \A i \in 1 .. Len(string) : CharAt(string, i) \notin NonAscii

\* the predicate types of str::core
StartsWith(prefix) == <<"StartsWith", prefix>>
EndsWith(suffix) == <<"EndsWith", suffix>>
Contains(string) == <<"Contains", string>>
StartsWithChar(c) == <<"StartsWithChar", c>>
EndsWithChar(c) == <<"EndsWithChar", c>>
ContainsChar(c) == <<"ContainsChar", c>>
TrimmedStart == <<"TrimmedStart">>
TrimmedEnd == <<"TrimmedEnd">>
Trimmed == <<"Trimmed">>
Ascii == <<"Ascii">>

\* the failure types of str::core
StartsWithError(prefix) == <<"StartsWithError", prefix>>
EndsWithError(suffix) == <<"EndsWithError", suffix>>
ContainsError(string) == <<"ContainsError", string>>
StartsWithCharError(start) == <<"StartsWithCharError", start>>
EndsWithCharError(end) == <<"EndsWithCharError", end>>
ContainsCharError(character) == <<"ContainsCharError", character>>
TrimmedStartError == <<"TrimmedStartError">>
TrimmedEndError == <<"TrimmedEndError">>
TrimmedError == <<"TrimmedError">>
AsciiError == <<"AsciiError">>

\* StartsWith::check that looks for the prefix anywhere in the string
CheckStartsWith_Anywhere(prefix, value) ==
    IF contains(value, prefix) THEN Ok ELSE Err(StartsWithError(prefix))

\* StartsWith::check
CheckStartsWith(prefix, value) ==
    IF starts_with(value, prefix) THEN Ok ELSE Err(StartsWithError(prefix))

\* EndsWith::check
CheckEndsWith(suffix, value) ==
    IF ends_with(value, suffix) THEN Ok ELSE Err(EndsWithError(suffix))

\* Contains::check
CheckContains(string, value) ==
    IF contains(value, string) THEN Ok ELSE Err(ContainsError(string))

\* StartsWithChar::check
CheckStartsWithChar(c, value) ==
    IF starts_with(value, c) THEN Ok ELSE Err(StartsWithCharError(c))

\* EndsWithChar::check
CheckEndsWithChar(c, value) ==
    IF ends_with(value, c) THEN Ok ELSE Err(EndsWithCharError(c))

\* ContainsChar::check
CheckContainsChar(c, value) ==
    IF contains(value, c) THEN Ok ELSE Err(ContainsCharError(c))

\* TrimmedStart::check: the string is compared with itself trimmed at both ends
CheckTrimmedStart(value) ==
    IF trim(value) = value THEN Ok ELSE Err(TrimmedStartError)

\* TrimmedEnd::check: the string is compared with itself trimmed at both ends
CheckTrimmedEnd(value) ==
    IF trim(value) = value THEN Ok ELSE Err(TrimmedEndError)

\* Trimmed::check
CheckTrimmed(value) ==
    IF trim(value) = value THEN Ok ELSE Err(TrimmedError)

\* Ascii::check
CheckAscii(value) ==
    IF is_ascii(value) THEN Ok ELSE Err(AsciiError)

\* Predicate::check, dispatched on the predicate type
RECURSIVE Check(_, _)

\* And::check evaluating Q before P
CheckAnd_RightFirst(p, q, value) ==
    LET right == Check(q, value)
    IN  IF IsErr(right)
        THEN Err(Right(ErrOf(right)))
        ELSE LET left == Check(p, value)
             IN  IF IsErr(left) THEN Err(Left(ErrOf(left))) ELSE Ok

\* And::check: map_err(Left) on P's result, and_then Q only when P passed
CheckAnd(p, q, value) ==
    LET left == Check(p, value)
    IN  IF IsErr(left)
        THEN Err(Left(ErrOf(left)))
        ELSE LET right == Check(q, value)
             IN  IF IsErr(right) THEN Err(Right(ErrOf(right))) ELSE Ok

\* Or::check building BothError with the two errors exchanged
CheckOr_Exchanged(p, q, value) ==
    LET left == Check(p, value)
    IN  IF IsOk(left)
        THEN Ok
        ELSE LET right == Check(q, value)
             IN  IF IsErr(right) THEN Err(BothError(ErrOf(right), ErrOf(left))) ELSE Ok

\* Or::check: or_else runs Q only when P failed
CheckOr(p, q, value) ==
    LET left == Check(p, value)
    IN  IF IsOk(left)
        THEN Ok
        ELSE LET right == Check(q, value)
             IN  IF IsErr(right) THEN Err(BothError(ErrOf(left), ErrOf(right))) ELSE Ok

\* Not::check with the two match arms exchanged
CheckNot_Exchanged(p, value) ==
    IF IsOk(Check(p, value)) THEN Ok ELSE Err(NotError)

\* Not::check
CheckNot(p, value) ==
    IF IsOk(Check(p, value)) THEN Err(NotError) ELSE Ok

\* Xor::check that accepts when both sides fail
CheckXor_Inclusive(p, q, value) ==
    LET left == Check(p, value)
        right == Check(q, value)
    IN  CASE IsOk(left) /\ IsOk(right) -> Err(Neither)
          [] OTHER -> Ok

\* Xor::check: both sides are always evaluated
CheckXor(p, q, value) ==
    LET left == Check(p, value)
        right == Check(q, value)
    IN  CASE IsOk(left) /\ IsOk(right) -> Err(Neither)
          [] IsErr(left) /\ IsErr(right) -> Err(Both(BothError(ErrOf(left), ErrOf(right))))
          [] OTHER -> Ok

Check(p, value) ==
    CASE p[1] = "True" -> CheckTrue(value)
      [] p[1] = "False" -> CheckFalse(value)
      [] p[1] \in CompareNames -> CheckCompare(p[1], p[2], value)
      [] p[1] = "And" -> CheckAnd(p[2], p[3], value)
      [] p[1] = "Or" -> CheckOr(p[2], p[3], value)
      [] p[1] = "Not" -> CheckNot(p[2], value)
      [] p[1] = "Xor" -> CheckXor(p[2], p[3], value)
      [] p[1] = "Modulo" -> CheckModulo(p[2], p[3], value)
      [] p[1] = "LengthModulo" -> CheckLengthModulo(p[2], p[3], value)
      [] p[1] = "StartsWith" -> CheckStartsWith(p[2], value)
      [] p[1] = "EndsWith" -> CheckEndsWith(p[2], value)
      [] p[1] = "Contains" -> CheckContains(p[2], value)
      [] p[1] = "StartsWithChar" -> CheckStartsWithChar(p[2], value)
      [] p[1] = "EndsWithChar" -> CheckEndsWithChar(p[2], value)
      [] p[1] = "ContainsChar" -> CheckContainsChar(p[2], value)
      [] p[1] = "TrimmedStart" -> CheckTrimmedStart(value)
      [] p[1] = "TrimmedEnd" -> CheckTrimmedEnd(value)
      [] p[1] = "Trimmed" -> CheckTrimmed(value)
      [] p[1] = "Ascii" -> CheckAscii(value)

\* Predicate::is_satisfied
is_satisfied(p, value) == IsOk(Check(p, value))

----------------------------------------------------------------------------
(* Refinement<T, P, C> and Error<T, P, C>. *)

\* the failure slot of a result that carries no failure
NoError == <<"NoError">>

\* Refinement::unchecked: the struct literal; `given` is a history field
\* remembering the value the constructor was handed
unchecked(value) == [value |-> value, given |-> value]

\* Error::new that does not keep the rejected value
ErrorNew_Lossy(value, error) == [value |-> DefaultValue, error |-> error]

\* Error::new
ErrorNew(value, error) == [value |-> value, error |-> error]

\* Error::value
ErrorValue(err) == err.value

\* Error::error
ErrorError(err) == err.error

\* Refinement::check
RefinementCheck(p, value) == Check(p, value)

\* Refinement::is_fine
is_fine(p, value) == is_satisfied(p, value)

\* Refinement::refine with the two match arms exchanged
refine_Exchanged(p, value) ==
    LET checked == RefinementCheck(p, value)
    IN  IF IsOk(checked)
        THEN <<"Err", ErrorNew(value, NoError)>>
        ELSE <<"Ok", unchecked(value)>>

\* Refinement::refine: <<"Ok", refinement>> or <<"Err", error>>
refine(p, value) ==
    LET checked == RefinementCheck(p, value)
    IN  IF IsOk(checked)
        THEN <<"Ok", unchecked(value)>>
        ELSE <<"Err", ErrorNew(value, ErrOf(checked))>>

\* Refinement::try_default that wraps the default value as unchecked_default does
try_default_Unchecked(p) == <<"Ok", unchecked(DefaultValue)>>

\* Refinement::try_default
try_default(p) == refine(p, DefaultValue)

\* the closures handed to map and map_unchecked
\* (|v| v.wrapping_neg() and |v| v / 2, which rounds towards zero)
Functions == {"wrapping_neg", "halve"}

Apply(function, value) ==
    CASE function = "wrapping_neg" -> Wrap(0 - value)
      [] function = "halve" -> IF value >= 0 THEN value \div 2 ELSE 0 - ((0 - value) \div 2)

\* Refinement::map that wraps the mapped value without refining it
map_Unvalidated(p, taken, function) == <<"Ok", unchecked(Apply(function, taken))>>

\* Refinement::map whose Error carries the value the function was applied to
map_OriginalInError(p, taken, function) ==
    LET result == refine(p, Apply(function, taken))
    IN  IF result[1] = "Ok"
        THEN result
        ELSE <<"Err", ErrorNew(taken, ErrorError(result[2]))>>

\* Refinement::map, given what self.take() produced
map(p, taken, function) == refine(p, Apply(function, taken))

\* Refinement::replace that hands back the old value when the new one is refused
replace_OldInError(p, self, value) ==
    LET result == refine(p, value)
    IN  IF result[1] = "Ok"
        THEN result
        ELSE <<"Err", ErrorNew(self.value, ErrorError(result[2]))>>

\* Refinement::replace; self is dropped
replace(p, self, value) == refine(p, value)

\* Refinement::map_unchecked that wraps the taken value as it is
map_unchecked_Unapplied(taken, function) == unchecked(taken)

\* Refinement::map_unchecked, given what self.take() produced
map_unchecked(taken, function) == unchecked(Apply(function, taken))

\* Refinement::replace_unchecked; self is dropped
replace_unchecked(self, value) == unchecked(value)

\* what reading self.value through get / take can produce: with feature
\* "unsafe-assert", assert_refined on a value that is not fine is undefined
\* behaviour, so any value may come out, or the call may not return (FALSE)
Outcomes(self) ==
    IF unsafe_assert /\ ~is_fine(P, self.value)
    THEN [returns : BOOLEAN, value : Values]
    ELSE {[returns |-> TRUE, value |-> self.value]}

\* the live Refinement values
Live == BagToSet(refs)

\* the bag of live values once r is bound / once r is moved out of or dropped
Bind(bag, r) == bag (+) SetToBag({r})
Unbind(bag, r) == bag (-) SetToBag({r})

\* whether one more Refinement can be live
Room == BagCardinality(refs) < MaxLive

\* the record of what an operation returned
Returned(op, arg, function, ok, value, error) ==
    [op |-> op, arg |-> arg, fn |-> function,
     ok |-> ok, value |-> value, error |-> error]

\* the record of a Result<Refinement, Error>
ReturnedResult(op, arg, function, result) ==
    IF result[1] = "Ok"
    THEN Returned(op, arg, function, TRUE, result[2].value, NoError)
    ELSE Returned(op, arg, function, FALSE,
                  ErrorValue(result[2]), ErrorError(result[2]))

\* the record of a call that did not return
Aborted(arg, function) == Returned("abort", arg, function, FALSE, 0, NoError)

\* the bag of live values after a Result<Refinement, Error> was bound
BindResult(bag, result) == IF result[1] = "Ok" THEN Bind(bag, result[2]) ELSE bag

----------------------------------------------------------------------------
(* The operations. *)

\* let r = Refinement::refine(value)
Refine(value) ==
    /\ Room
    /\ LET result == refine(P, value)
       IN  /\ refs' = BindResult(refs, result)
           /\ res' = ReturnedResult("refine", value, "none", result)
    /\ UNCHANGED <<P, C, unsafe_assert, tainted>>

\* let r = Refinement::try_default()
TryDefault ==
    /\ Room
    /\ LET result == try_default(P)
       IN  /\ refs' = BindResult(refs, result)
           /\ res' = ReturnedResult("try_default", DefaultValue, "none", result)
    /\ UNCHANGED <<P, C, unsafe_assert, tainted>>

\* let r = r.map(function): self is consumed by take
Map(self, function) ==
    /\ self \in Live
    /\ \E taken \in Outcomes(self) :
          IF taken.returns
          THEN LET result == map(P, taken.value, function)
               IN  /\ refs' = BindResult(Unbind(refs, self), result)
                   /\ res' = ReturnedResult("map", self.given, function, result)
          ELSE /\ refs' = Unbind(refs, self)
               /\ res' = Aborted(self.given, function)
    /\ UNCHANGED <<P, C, unsafe_assert, tainted>>

\* let r = r.replace(value): self is dropped
Replace(self, value) ==
    /\ self \in Live
    /\ LET result == replace(P, self, value)
       IN  /\ refs' = BindResult(Unbind(refs, self), result)
           /\ res' = ReturnedResult("replace", value, "none", result)
    /\ UNCHANGED <<P, C, unsafe_assert, tainted>>

\* let c = r.clone()
Clone(self) ==
    /\ self \in Live
    /\ Room
    /\ \E got \in Outcomes(self) :
          IF got.returns
          THEN /\ refs' = Bind(refs, unchecked(got.value))
               /\ res' = Returned("clone", self.given, "none", TRUE, got.value, NoError)
          ELSE /\ refs' = refs
               /\ res' = Aborted(self.given, "none")
    /\ UNCHANGED <<P, C, unsafe_assert, tainted>>

\* r.get()
Get(self) ==
    /\ self \in Live
    /\ \E got \in Outcomes(self) :
          IF got.returns
          THEN res' = Returned("get", self.given, "none", TRUE, got.value, NoError)
          ELSE res' = Aborted(self.given, "none")
    /\ UNCHANGED <<P, C, unsafe_assert, refs, tainted>>

\* r.take(): self is consumed
Take(self) ==
    /\ self \in Live
    /\ \E taken \in Outcomes(self) :
          IF taken.returns
          THEN res' = Returned("take", self.given, "none", TRUE, taken.value, NoError)
          ELSE res' = Aborted(self.given, "none")
    /\ refs' = Unbind(refs, self)
    /\ UNCHANGED <<P, C, unsafe_assert, tainted>>

\* Refinement::check(&value)
CheckOp(value) ==
    /\ LET checked == RefinementCheck(P, value)
       IN  IF checked = Panic
           THEN res' = Aborted(value, "none")
           ELSE res' = Returned("check", value, "none", IsOk(checked), value,
                                IF IsOk(checked) THEN NoError ELSE ErrOf(checked))
    /\ UNCHANGED <<P, C, unsafe_assert, refs, tainted>>

\* Refinement::is_fine(&value)
IsFine(value) ==
    /\ res' = Returned("is_fine", value, "none", is_fine(P, value), value, NoError)
    /\ UNCHANGED <<P, C, unsafe_assert, refs, tainted>>

\* let r = unsafe { Refinement::unchecked(value) }
Unchecked(value) ==
    /\ Room
    /\ refs' = Bind(refs, unchecked(value))
    /\ res' = Returned("unchecked", value, "none", TRUE, value, NoError)
    /\ tainted' = TRUE
    /\ UNCHANGED <<P, C, unsafe_assert>>

\* let r = unsafe { Refinement::unchecked_default() }
UncheckedDefault ==
    /\ Room
    /\ refs' = Bind(refs, unchecked(DefaultValue))
    /\ res' = Returned("unchecked_default", DefaultValue, "none", TRUE, DefaultValue, NoError)
    /\ tainted' = TRUE
    /\ UNCHANGED <<P, C, unsafe_assert>>

\* let r = unsafe { r.map_unchecked(function) }
MapUnchecked(self, function) ==
    /\ self \in Live
    /\ \E taken \in Outcomes(self) :
          IF taken.returns
          THEN LET r == map_unchecked(taken.value, function)
               IN  /\ refs' = Bind(Unbind(refs, self), r)
                   /\ res' = Returned("map_unchecked", self.given, function,
                                      TRUE, r.value, NoError)
          ELSE /\ refs' = Unbind(refs, self)
               /\ res' = Aborted(self.given, function)
    /\ tainted' = TRUE
    /\ UNCHANGED <<P, C, unsafe_assert>>

\* let r = unsafe { r.replace_unchecked(value) }
ReplaceUnchecked(self, value) ==
    /\ self \in Live
    /\ LET r == replace_unchecked(self, value)
       IN  /\ refs' = Bind(Unbind(refs, self), r)
           /\ res' = Returned("replace_unchecked", value, "none", TRUE, r.value, NoError)
    /\ tainted' = TRUE
    /\ UNCHANGED <<P, C, unsafe_assert>>

----------------------------------------------------------------------------
(* The specification of the container. *)

\* the predicate types the container is instantiated at
CorePredicates ==
    { Closed(-1, 1), Greater(0), Or(Less(-1), Equal(1)), Xor(Less(1), NotEqual(-1)) }

NoResult == Returned("none", 0, "none", TRUE, 0, NoError)

Init ==
    /\ P \in CorePredicates
    /\ C = NoContext
    /\ unsafe_assert \in BOOLEAN
    /\ refs = EmptyBag
    /\ res = NoResult
    /\ tainted = FALSE

Next ==
    \/ \E value \in Values : Refine(value)
    \/ TryDefault
    \/ \E self \in Live, function \in Functions : Map(self, function)
    \/ \E self \in Live, value \in Values : Replace(self, value)
    \/ \E self \in Live : Clone(self)
    \/ \E self \in Live : Get(self)
    \/ \E self \in Live : Take(self)
    \/ \E value \in Values : CheckOp(value)
    \/ \E value \in Values : IsFine(value)
    \/ \E value \in Values : Unchecked(value)
    \/ UncheckedDefault
    \/ \E self \in Live, function \in Functions : MapUnchecked(self, function)
    \/ \E self \in Live, value \in Values : ReplaceUnchecked(self, value)

Spec == Init /\ [][Next]_vars

----------------------------------------------------------------------------
(* The claims about the container, under Spec. *)

\* C1: as long as no unchecked operation has been called, every live
\* Refinement holds a value for which P::check returns Ok.
RefinementInvariant ==
    ~tainted => \A r \in Live : IsOk(Check(P, r.value))

\* C1 witness: only checked operations ran, two Refinements are live and the
\* last one came out of a map that changed the value
RefinementInvariantWitness ==
    /\ ~tainted
    /\ BagCardinality(refs) >= 2
    /\ res.op = "map" /\ res.ok /\ res.value # res.arg
    /\ \E r \in Live : r.value = res.value

\* C2: for a value v that P accepts, refine(v) returns Ok(r) with r holding
\* v, and get and take on a Refinement made from v return v (and return).
RoundTrip ==
    /\ res.op = "refine" /\ is_satisfied(P, res.arg) =>
          /\ res.ok
          /\ res.value = res.arg
          /\ \E r \in Live : r.value = res.arg /\ r.given = res.arg
    /\ res.op \in {"get", "take"} /\ is_satisfied(P, res.arg) =>
          res.ok /\ res.value = res.arg
    /\ res.op = "abort" => ~is_satisfied(P, res.arg)

\* C2 witness: take returned the non-default value a checked Refinement was
\* made from
RoundTripWitness ==
    /\ ~tainted
    /\ res.op = "take"
    /\ res.arg # DefaultValue
    /\ res.value = res.arg

\* C3: for a value v that P rejects with e, refine(v) returns Err(err) with
\* err.value() = v and err.error() = e, and the live Refinements are the
\* ones there were before the call.
RejectionFidelity ==
    [][ (res'.op = "refine" /\ IsErr(Check(P, res'.arg))) =>
            /\ ~res'.ok
            /\ res'.value = res'.arg
            /\ res'.error = ErrOf(Check(P, res'.arg))
            /\ refs' = refs ]_vars

\* C3 witness: refine refused a non-default value and handed it back, while
\* another Refinement is live
RejectionFidelityWitness ==
    /\ res.op = "refine"
    /\ ~res.ok
    /\ res.arg # DefaultValue
    /\ res.value = res.arg
    /\ res.error = ErrOf(Check(P, res.arg))
    /\ Live # {}

\* C9: r.map(f), for r holding v (a value P accepts, or any value when the
\* build has no unsafe-assert), consumes r and returns Ok(refinement holding
\* f(v)) iff P accepts f(v); otherwise Err whose value is f(v) and whose
\* error is P's failure on f(v).
MapRevalidates ==
    [][ (res'.op = "map" /\ (~unsafe_assert \/ is_fine(P, res'.arg))) =>
            LET w == Apply(res'.fn, res'.arg)
                checked == Check(P, w)
            IN  /\ res'.ok <=> IsOk(checked)
                /\ res'.value = w
                /\ ~res'.ok => res'.error = ErrOf(checked)
                /\ \E self \in Live :
                      /\ self.value = res'.arg
                      /\ refs' = IF IsOk(checked)
                                 THEN Bind(Unbind(refs, self), unchecked(w))
                                 ELSE Unbind(refs, self) ]_vars

\* C9 witness: a map whose function changed the value was refused, and the
\* Error carries the changed value
MapRevalidatesWitness ==
    /\ res.op = "map"
    /\ ~res.ok
    /\ res.value = Apply(res.fn, res.arg)
    /\ res.value # res.arg
    /\ res.error # NoError

\* C10: r.replace(w) returns what refine(w) returns, whatever r holds: Ok
\* holding w iff P accepts w, else Err carrying w and P's failure on w.
ReplaceIsRefine ==
    res.op = "replace" =>
        /\ res = ReturnedResult("replace", res.arg, "none", refine(P, res.arg))
        /\ res.ok <=> IsOk(Check(P, res.arg))
        /\ res.value = res.arg
        /\ res.ok => \E r \in Live : r.value = res.arg
        /\ ~res.ok => res.error = ErrOf(Check(P, res.arg))

\* C10 witness: replace refused a non-default value and handed it back
ReplaceIsRefineWitness ==
    /\ res.op = "replace"
    /\ ~res.ok
    /\ res.arg # DefaultValue
    /\ res.value = res.arg

\* C11: try_default returns what refine(T::default()) returns: Ok holding the
\* default value, which becomes live, when P accepts it; Err carrying the
\* default value and P's failure, with no Refinement made, when P rejects it.
TryDefaultIsRefine ==
    [][ res'.op = "try_default" =>
            LET checked == Check(P, DefaultValue)
            IN  /\ res' = ReturnedResult("try_default", DefaultValue, "none",
                                         refine(P, DefaultValue))
                /\ res'.ok <=> IsOk(checked)
                /\ res'.value = DefaultValue
                /\ ~res'.ok => res'.error = ErrOf(checked) /\ refs' = refs
                /\ res'.ok => refs' = Bind(refs, unchecked(DefaultValue)) ]_vars

\* C11 witness: P rejects the default value and try_default handed it back
\* with P's failure
TryDefaultIsRefineWitness ==
    /\ res.op = "try_default"
    /\ ~res.ok
    /\ res.value = DefaultValue
    /\ res.error = ErrOf(Check(P, DefaultValue))
    /\ \A r \in Live : r.value # DefaultValue

\* what the unchecked operations and the reads after them return, for the
\* reads that `defined` says are defined behaviour
UncheckedLaw(defined) ==
    /\ res.op \in {"unchecked", "replace_unchecked"} =>
          /\ res.ok /\ res.value = res.arg
          /\ \E r \in Live : r.value = res.arg
    /\ res.op = "map_unchecked" /\ defined =>
          /\ res.ok /\ res.value = Apply(res.fn, res.arg)
          /\ \E r \in Live : r.value = res.value
    /\ res.op \in {"get", "take"} /\ defined =>
          res.ok /\ res.value = res.arg
    /\ res.op = "abort" => ~defined
    /\ (\E r \in Live : ~is_satisfied(P, r.value)) => tainted

\* C27 as stated: unchecked, replace_unchecked and map_unchecked return a
\* Refinement holding the value they were given (resp. the mapped value) for
\* every value, get and take return the held value unchanged, every call
\* returns, and a violating value is live only after an unchecked operation.
UncheckedAsStated == UncheckedLaw(TRUE)

\* C27, amended: the same, where get, take and map_unchecked on a value that
\* violates P are required to return the value only in a build without
\* unsafe-assert; with that feature they are undefined behaviour.
UncheckedNoValidation == UncheckedLaw(~unsafe_assert \/ is_fine(P, res.arg))

\* C27 witness: a violating value made by an unchecked operation was read
\* back unchanged, in a build without unsafe-assert
UncheckedNoValidationWitness ==
    /\ res.op = "get"
    /\ ~unsafe_assert
    /\ ~is_satisfied(P, res.arg)
    /\ res.value = res.arg

----------------------------------------------------------------------------
(* Equality, ordering and hashing of Refinement values. *)

\* <i8 as Ord>::cmp
Ordering(a, b) ==
    IF a < b THEN "Less" ELSE IF a = b THEN "Equal" ELSE "Greater"

\* PartialEq::eq that compares the left value with itself
eq_Reflexive(value, other) == value = value

\* <Refinement as PartialEq>::eq, given what self.get() and other.get() produced
eq(value, other) == value = other

\* <Refinement as PartialOrd>::partial_cmp, given the two get() results
partial_cmp(value, other) == <<"Some", Ordering(value, other)>>

\* <Refinement as Ord>::cmp, given the two get() results
cmp(value, other) == Ordering(value, other)

\* <Refinement as Hash>::hash, given what self.get() produced: what is
\* written to the hasher after what it was fed before
hash(value, hasher) == Append(hasher, value)

\* r == other
Eq(self, other) ==
    /\ self \in Live /\ other \in Live
    /\ \E got \in Outcomes(self), gotOther \in Outcomes(other) :
          IF got.returns /\ gotOther.returns
          THEN res' = Returned("eq", <<self.given, other.given>>, "none", TRUE,
                               eq(got.value, gotOther.value), NoError)
          ELSE res' = Aborted(<<self.given, other.given>>, "none")
    /\ UNCHANGED <<P, C, unsafe_assert, refs, tainted>>

\* r.partial_cmp(&other)
PartialCmp(self, other) ==
    /\ self \in Live /\ other \in Live
    /\ \E got \in Outcomes(self), gotOther \in Outcomes(other) :
          IF got.returns /\ gotOther.returns
          THEN res' = Returned("partial_cmp", <<self.given, other.given>>, "none", TRUE,
                               partial_cmp(got.value, gotOther.value), NoError)
          ELSE res' = Aborted(<<self.given, other.given>>, "none")
    /\ UNCHANGED <<P, C, unsafe_assert, refs, tainted>>

\* r.cmp(&other)
Cmp(self, other) ==
    /\ self \in Live /\ other \in Live
    /\ \E got \in Outcomes(self), gotOther \in Outcomes(other) :
          IF got.returns /\ gotOther.returns
          THEN res' = Returned("cmp", <<self.given, other.given>>, "none", TRUE,
                               cmp(got.value, gotOther.value), NoError)
          ELSE res' = Aborted(<<self.given, other.given>>, "none")
    /\ UNCHANGED <<P, C, unsafe_assert, refs, tainted>>

\* r.hash(&mut hasher), with a fresh hasher
Hash(self) ==
    /\ self \in Live
    /\ \E got \in Outcomes(self) :
          IF got.returns
          THEN res' = Returned("hash", <<self.given>>, "none", TRUE,
                               hash(got.value, <<>>), NoError)
          ELSE res' = Aborted(<<self.given>>, "none")
    /\ UNCHANGED <<P, C, unsafe_assert, refs, tainted>>

\* the predicate types the compared Refinements are instantiated at
ComparePredicates == { Closed(-1, 1), Greater(0) }

InitCompare ==
    /\ P \in ComparePredicates
    /\ C \in Contexts
    /\ unsafe_assert \in BOOLEAN
    /\ refs = EmptyBag
    /\ res = NoResult
    /\ tainted = FALSE

NextCompare ==
    \/ \E value \in Values : Refine(value)
    \/ \E value \in Values : Unchecked(value)
    \/ \E self \in Live, other \in Live : Eq(self, other)
    \/ \E self \in Live, other \in Live : PartialCmp(self, other)
    \/ \E self \in Live, other \in Live : Cmp(self, other)
    \/ \E self \in Live : Hash(self)

SpecCompare == InitCompare /\ [][NextCompare]_vars

\* whether the value a compared Refinement was made from can be read:
\* always, except in a build with unsafe-assert for a value P rejects
Readable(value) == ~unsafe_assert \/ is_fine(P, value)

\* C12: r1 == r2 iff the inner values are equal, cmp and partial_cmp are the
\* cmp and partial_cmp of the inner values, and hash feeds the hasher the
\* inner value and nothing else; P and C play no part.
ComparisonDelegates ==
    /\ res.op = "eq" /\ Readable(res.arg[1]) /\ Readable(res.arg[2]) =>
          res.value = (res.arg[1] = res.arg[2])
    /\ res.op = "cmp" /\ Readable(res.arg[1]) /\ Readable(res.arg[2]) =>
          /\ res.value = "Less" <=> res.arg[1] < res.arg[2]
          /\ res.value = "Equal" <=> res.arg[1] = res.arg[2]
          /\ res.value = "Greater" <=> res.arg[1] > res.arg[2]
    /\ res.op = "partial_cmp" /\ Readable(res.arg[1]) /\ Readable(res.arg[2]) =>
          /\ res.value[1] = "Some"
          /\ res.value[2] = "Less" <=> res.arg[1] < res.arg[2]
          /\ res.value[2] = "Equal" <=> res.arg[1] = res.arg[2]
          /\ res.value[2] = "Greater" <=> res.arg[1] > res.arg[2]
    /\ res.op = "hash" /\ Readable(res.arg[1]) => res.value = <<res.arg[1]>>

\* C12 witness: two Refinements holding different values compared unequal
ComparisonDelegatesWitness ==
    /\ res.op = "eq"
    /\ res.arg[1] # res.arg[2]
    /\ res.value = FALSE

----------------------------------------------------------------------------
(* Rendering of Error values. *)

\* stringify!($int) for the integer type of the values
IntName == "i8"

\* the character that delimits the expectation code in Error's Display text:
\* a backtick in the source, which a TLA+ string cannot hold, so that an
\* apostrophe stands for it here
Tick == "'"

\* EXPECTED
EXPECTED == "expected"

\* stringify!($operation) of a compare! predicate
OperationText(name) ==
    CASE name = "Less" -> "<"
      [] name = "LessOrEqual" -> "<="
      [] name = "Greater" -> ">"
      [] name = "GreaterOrEqual" -> ">="
      [] name = "Equal" -> "=="
      [] name = "NotEqual" -> "!="

\* stringify!($code) of a compare! predicate
CodeText(name) ==
    CASE name = "Less" -> "lt"
      [] name = "LessOrEqual" -> "le"
      [] name = "Greater" -> "gt"
      [] name = "GreaterOrEqual" -> "ge"
      [] name = "Equal" -> "eq"
      [] name = "NotEqual" -> "ne"

\* the names of the predicates of str::core
StrNames ==
    {"StartsWith", "EndsWith", "Contains", "StartsWithChar", "EndsWithChar",
     "ContainsChar", "TrimmedStart", "TrimmedEnd", "Trimmed", "Ascii"}

\* Predicate::expect of the predicates of str::core, as the text it writes;
\* write! substitutes the parameter
str_expect(p) ==
    CASE p[1] = "StartsWith" -> "string starting with " \o Tick \o p[2] \o Tick
      [] p[1] = "EndsWith" -> "string ending with " \o Tick \o p[2] \o Tick
      [] p[1] = "Contains" -> "string containing " \o Tick \o p[2] \o Tick
      [] p[1] = "StartsWithChar" ->
            "string starting with " \o Tick \o p[2] \o Tick
      [] p[1] = "EndsWithChar" -> "string ending with " \o Tick \o p[2] \o Tick
      [] p[1] = "ContainsChar" -> "string containing " \o Tick \o p[2] \o Tick
      [] p[1] = "TrimmedStart" -> "string trimmed at the start"
      [] p[1] = "TrimmedEnd" -> "string trimmed at the end"
      [] p[1] = "Trimmed" -> "trimmed string"
      [] p[1] = "Ascii" -> "ascii string"

\* Predicate::expect_code of the predicates of str::core, as the text it
\* writes; write_str writes its argument as it is, braces included
str_expect_code(p) ==
    CASE p[1] = "StartsWith" -> "str::starts_with"
      [] p[1] = "EndsWith" -> "str::ends_with"
      [] p[1] = "Contains" -> "str::contains"
      [] p[1] = "StartsWithChar" -> "str::starts_with_char"
      [] p[1] = "EndsWithChar" -> "str::ends_with<{C}>"
      [] p[1] = "ContainsChar" -> "str::contains<{C}>"
      [] p[1] = "TrimmedStart" -> "str::trimmed_start"
      [] p[1] = "TrimmedEnd" -> "str::trimmed_end"
      [] p[1] = "Trimmed" -> "str::trimmed"
      [] p[1] = "Ascii" -> "str::ascii"

\* Diagnostic::code of the failure types of str::core, from their
\* diagnostic(code(..)) attributes
code(error) ==
    CASE error[1] = "StartsWithError" -> "str::starts_with"
      [] error[1] = "EndsWithError" -> "str::ends_with"
      [] error[1] = "ContainsError" -> "str::contains"
      [] error[1] = "StartsWithCharError" -> "str::starts_with_char"
      [] error[1] = "EndsWithCharError" -> "str::ends_with_char"
      [] error[1] = "ContainsCharError" -> "str::contains_char"
      [] error[1] = "TrimmedStartError" -> "str::trimmed_start"
      [] error[1] = "TrimmedEndError" -> "str::trimmed_end"
      [] error[1] = "TrimmedError" -> "str::trimmed"
      [] error[1] = "AsciiError" -> "str::ascii"

RECURSIVE expect(_)
\* Predicate::expect, as the text it writes
expect(p) ==
    CASE p[1] = "True" -> "anything"
      [] p[1] = "False" -> "nothing"
      [] p[1] = "And" -> "(" \o expect(p[2]) \o ") and (" \o expect(p[3]) \o ")"
      [] p[1] = "Or" -> "(" \o expect(p[2]) \o ") or (" \o expect(p[3]) \o ")"
      [] p[1] = "Not" -> "not (" \o expect(p[2]) \o ")"
      [] p[1] = "Xor" -> "(" \o expect(p[2]) \o ") xor (" \o expect(p[3]) \o ")"
      [] p[1] \in CompareNames ->
            IntName \o " " \o OperationText(p[1]) \o " " \o ToString(p[2])
      [] p[1] \in StrNames -> str_expect(p)

RECURSIVE expect_code(_)
\* Predicate::expect_code, as the text it writes
expect_code(p) ==
    CASE p[1] = "True" -> "true"
      [] p[1] = "False" -> "false"
      [] p[1] = "And" -> "and<" \o expect_code(p[2]) \o ", " \o expect_code(p[3]) \o ">"
      [] p[1] = "Or" -> "or<" \o expect_code(p[2]) \o ", " \o expect_code(p[3]) \o ">"
      [] p[1] = "Not" -> "not<" \o expect_code(p[2]) \o ">"
      [] p[1] = "Xor" -> "xor<" \o expect_code(p[2]) \o ", " \o expect_code(p[3]) \o ">"
      [] p[1] \in CompareNames ->
            IntName \o "::" \o CodeText(p[1]) \o "<" \o ToString(p[2]) \o ">"
      [] p[1] \in StrNames -> str_expect_code(p)

\* Display for Error that writes the context before the expectation
ErrorDisplay_ContextFirst(p, c) ==
    EXPECTED \o " [" \o c \o "] " \o expect(p)
        \o " (code " \o Tick \o expect_code(p) \o Tick \o ")"

\* <Error<T, P, C> as Display>::fmt, as the text it writes
ErrorDisplay(p, c) ==
    EXPECTED \o " " \o expect(p)
        \o " (code " \o Tick \o expect_code(p) \o Tick \o ")"
        \o " [" \o c \o "]"

\* Display::fmt for Error that also writes the rejected value
fmt_Revealing(self, p, c) == ErrorDisplay(p, c) \o ": " \o ToString(self.value)

\* <Error<T, P, C> as Display>::fmt(&self, formatter): what it writes for self
fmt(self, p, c) == ErrorDisplay(p, c)

\* whether the last call returned an Error that is still at hand
Held == res.op = "refine" /\ ~res.ok

\* error.to_string(), on the Error the last refine returned
Display ==
    /\ Held
    /\ res' = Returned("display", res.arg, "none", FALSE,
                       fmt(ErrorNew(res.value, res.error), P, C), res.error)
    /\ UNCHANGED <<P, C, unsafe_assert, refs, tainted>>

\* Error::into_parts that keeps the value and drops the failure
into_parts_Erased(err) == <<err.value, NoError>>

\* Error::into_parts, and From<Error<T, P, C>> for (T, P::Error)
into_parts(err) == <<err.value, err.error>>

\* error.into_parts(), on the Error the last refine returned
IntoParts ==
    /\ Held
    /\ res' = Returned("into_parts", res.arg, "none", FALSE,
                       into_parts(ErrorNew(res.value, res.error)), NoError)
    /\ UNCHANGED <<P, C, unsafe_assert, refs, tainted>>

\* the predicate types whose rejections are rendered
ErrorPredicates ==
    { And(Greater(5), Less(20)), Or(Less(-1), Equal(1)), Not(GreaterOrEqual(0)),
      Xor(Less(1), NotEqual(-1)), Closed(1, 10), True, False }

\* the values handed to refine: the small ones and one above every bound
ErrorValues == Values \cup {15}

InitError ==
    /\ P \in ErrorPredicates
    /\ C \in Contexts
    /\ unsafe_assert = FALSE
    /\ refs = EmptyBag
    /\ res = NoResult
    /\ tainted = FALSE

NextError ==
    \/ \E value \in ErrorValues : Refine(value)
    \/ \E value \in ErrorValues : CheckOp(value)
    \/ Display
    \/ IntoParts

SpecError == InitError /\ [][NextError]_vars

\* whether text begins with head
TextStartsWith(text, head) ==
    /\ Len(text) >= Len(head)
    /\ SubSeq(text, 1, Len(head)) = head

\* whether text ends with tail
TextEndsWith(text, tail) ==
    /\ Len(text) >= Len(tail)
    /\ SubSeq(text, Len(text) - Len(tail) + 1, Len(text)) = tail

\* the general form of the claim: "expected <expect text> [<context label>]",
\* optionally with the expectation code between the two
RenderedForm(text) ==
    LET head == "expected " \o expect(P)
        tail == " [" \o C \o "]"
        between == SubSeq(text, Len(head) + 1, Len(text) - Len(tail))
    IN  /\ TextStartsWith(text, head)
        /\ TextEndsWith(text, tail)
        /\ Len(text) >= Len(head) + Len(tail)
        /\ \/ between = ""
           \/ between = " (code " \o Tick \o expect_code(P) \o Tick \o ")"
        /\ C = NoContext => TextEndsWith(text, " [no context]")

\* C13 as stated: the Display text of an Error has the form
\* "expected <expect text> [<context label>]", optionally with the code, and
\* for And of "> 5" and "< 20" without a context it is
\* "expected (int > 5) and (int < 20) [no context]".
ErrorRenderingAsStated ==
    res.op = "display" =>
        /\ RenderedForm(res.value)
        /\ P = And(Greater(5), Less(20)) /\ C = NoContext =>
              res.value = "expected (int > 5) and (int < 20) [no context]"

\* C13, amended: the Display text of an Error is "expected <expect text>
\* (code <code>) [<context label>]", with the expect text of a combinator
\* built from its children's as "(A) and (B)", "(A) or (B)", "not (A)",
\* "(A) xor (B)", an integer comparison reading "i8 > 5", and "no context"
\* as the default label.
ErrorRendering ==
    res.op = "display" =>
        /\ RenderedForm(res.value)
        /\ P = And(Greater(5), Less(20)) /\ C = NoContext =>
              res.value = "expected (i8 > 5) and (i8 < 20) (code "
                            \o Tick \o "and<i8::gt<5>, i8::lt<20>>" \o Tick
                            \o ") [no context]"
        /\ P = Or(Less(-1), Equal(1)) =>
              TextStartsWith(res.value, "expected (i8 < -1) or (i8 == 1) (code ")
        /\ P = Not(GreaterOrEqual(0)) =>
              TextStartsWith(res.value, "expected not (i8 >= 0) (code ")
        /\ P = Xor(Less(1), NotEqual(-1)) =>
              TextStartsWith(res.value, "expected (i8 < 1) xor (i8 != -1) (code ")
        /\ P = False => TextStartsWith(res.value, "expected nothing (code ")

\* C13 witness: the rejection of a value by And<Greater<5>, Less<20>> was
\* rendered, without a context
ErrorRenderingWitness ==
    /\ res.op = "display"
    /\ P = And(Greater(5), Less(20))
    /\ C = NoContext
    /\ res.error = Left(CompareError(ErrorName("Greater"), 5))

ConstantPredicates ==
    /\ P = True =>
          /\ res.op \in {"check", "refine"} => res.ok
          /\ res.error = NoError
          /\ res.op \notin {"display", "into_parts"}
    /\ P = False =>
          /\ res.op \in {"check", "refine"} =>
                ~res.ok /\ res.error = AlwaysError /\ res.value = res.arg
          /\ refs = EmptyBag

\* C20 witness: refine with False refused a value with AlwaysError
ConstantPredicatesWitness ==
    /\ P = False
    /\ res.op = "refine"
    /\ ~res.ok
    /\ res.error = AlwaysError

\* the failures P reports for the values handed to refine
Failures(p) ==
    { ErrOf(Check(p, value)) : value \in { v \in ErrorValues : ~is_satisfied(p, v) } }

\* C29: the Display text of Error<T, P, C> depends on P and C only: whenever
\* an Error has been rendered, Error::new(v, e) renders the same text for
\* every value v and every failure e of P, so the text does not reveal the
\* rejected value.
MessageIndependence ==
    res.op = "display" =>
        \A value \in ErrorValues : \A error \in Failures(P) :
            fmt(ErrorNew(value, error), P, C) = res.value

\* C29 witness: the rejection of 15 by Closed<1, 10> was rendered, and the
\* rejection of 0, which fails for another reason, renders the same text
MessageIndependenceWitness ==
    /\ res.op = "display"
    /\ P = Closed(1, 10)
    /\ res.arg = 15
    /\ ErrOf(Check(P, 0)) # res.error
    /\ fmt(ErrorNew(0, ErrOf(Check(P, 0))), P, C) = res.value

----------------------------------------------------------------------------
(* Serialization (feature serde). *)

\* <i8 as Serialize>::serialize: the serializer is handed an i8
serialize_value(value) == <<"i8", value>>

\* <i8 as Deserialize>::deserialize: an i8 is read, anything else is refused
deserialize_value(wire) ==
    IF wire[1] = "i8" THEN <<"Ok", wire[2]>> ELSE <<"Err", <<"invalid type", wire[1]>>>>

\* <Refinement as Serialize>::serialize, given what self.get() produced
serialize(value) == serialize_value(value)

\* <Refinement as Deserialize>::deserialize that wraps what it read unchecked
deserialize_Unvalidated(p, c, wire) ==
    LET read == deserialize_value(wire)
    IN  IF read[1] = "Err" THEN read ELSE <<"Ok", unchecked(read[2])>>

\* <Refinement as Deserialize>::deserialize
deserialize(p, c, wire) ==
    LET read == deserialize_value(wire)
    IN  IF read[1] = "Err"
        THEN read
        ELSE LET refined == refine(p, read[2])
             IN  IF refined[1] = "Ok"
                 THEN refined
                 ELSE <<"Err", <<"custom", ErrorDisplay(p, c)>>>>

\* what a deserializer can be fed: every small i8, and input that is not an i8
Wires == { serialize_value(value) : value \in Values } \cup { <<"str", 0>> }

\* r.serialize(serializer)
Serialize(self) ==
    /\ self \in Live
    /\ \E got \in Outcomes(self) :
          IF got.returns
          THEN res' = Returned("serialize", self.given, "none", TRUE,
                               serialize(got.value), NoError)
          ELSE res' = Aborted(self.given, "none")
    /\ UNCHANGED <<P, C, unsafe_assert, refs, tainted>>

\* let r = Refinement::deserialize(deserializer)
Deserialize(wire) ==
    /\ Room
    /\ LET result == deserialize(P, C, wire)
       IN  /\ refs' = BindResult(refs, result)
           /\ res' = IF result[1] = "Ok"
                     THEN Returned("deserialize", wire, "none", TRUE, result[2].value, NoError)
                     ELSE Returned("deserialize", wire, "none", FALSE, 0, result[2])
    /\ UNCHANGED <<P, C, unsafe_assert, tainted>>

InitSerde ==
    /\ P \in ComparePredicates
    /\ C \in Contexts
    /\ unsafe_assert \in BOOLEAN
    /\ refs = EmptyBag
    /\ res = NoResult
    /\ tainted = FALSE

NextSerde ==
    \/ \E wire \in Wires : Deserialize(wire)
    \/ \E value \in Values : Unchecked(value)
    \/ \E self \in Live : Serialize(self)

SpecSerde == InitSerde /\ [][NextSerde]_vars

\* C15: a Refinement serializes as exactly its inner value; deserializing w
\* yields a Refinement holding w iff w is a value P accepts, and otherwise
\* fails with an error and makes no Refinement; w is never changed.
SerdeBoundary ==
    [][ /\ res'.op = "serialize" /\ Readable(res'.arg) =>
              res'.value = <<"i8", res'.arg>>
        /\ res'.op = "deserialize" =>
              LET wire == res'.arg
                  accepted == wire[1] = "i8" /\ IsOk(Check(P, wire[2]))
              IN  /\ res'.ok <=> accepted
                  /\ res'.ok => /\ res'.value = wire[2]
                                /\ refs' = Bind(refs, unchecked(wire[2]))
                  /\ ~res'.ok => /\ refs' = refs
                                 /\ res'.error # NoError ]_vars

\* C15 witness: a well-formed value that P rejects was refused on
\* deserialization
SerdeBoundaryWitness ==
    /\ res.op = "deserialize"
    /\ res.arg[1] = "i8"
    /\ ~is_satisfied(P, res.arg[2])
    /\ ~res.ok
    /\ res.error[1] = "custom"

----------------------------------------------------------------------------
(* The Modulo predicates, checked. *)

\* the lengths of the values handed to length::Modulo
Lengths == 0 .. MaxAbs

\* Modulo<D, M> for the small D and M, negative ones and zero included, and
\* length::Modulo<D, M> for the small D and M, zero included
ModuloPredicates ==
    { Modulo(d, m) : d \in Values, m \in Values }
        \cup { LengthModulo(d, m) : d \in Lengths, m \in Lengths }

InitModulo ==
    /\ P \in ModuloPredicates
    /\ C = NoContext
    /\ unsafe_assert = FALSE
    /\ refs = EmptyBag
    /\ res = NoResult
    /\ tainted = FALSE

NextModulo ==
    \/ P[1] = "Modulo" /\ \E value \in Values \cup {IntMin, IntMax} : CheckOp(value)
    \/ P[1] = "LengthModulo" /\ \E length \in Lengths : CheckOp(length)

SpecModulo == InitModulo /\ [][NextModulo]_vars

\* C16 as stated: for every D and M (D = 0 included, and D = -1 with the
\* least value), checking a value against Modulo<D, M>, or a length against
\* length::Modulo<D, M>, returns Ok or Err(ModuloError { divisor: D, modulo:
\* M }); the call never panics.
ModuloNeverPanics ==
    /\ res.op # "abort"
    /\ res.op = "check" => res.ok \/ res.error = ModuloError(P[2], P[3])

----------------------------------------------------------------------------
(* The specification of the predicates alone: check and is_fine are called *)
(* at every predicate type built from one or two primitive predicates.     *)

\* the values of the const parameters (the N of Less<N>, the M, N of Closed<M, N>)
ConstParams == Values

\* the values the predicates are checked on: the small ones and the extremes of i8
LogicValues == Values \cup {IntMin, IntMax}

Primitives == {True, False} \cup {<<name, n>> : name \in CompareNames, n \in ConstParams}

LogicPredicates ==
    {Not(p) : p \in Primitives}
        \cup {And(p, q) : p \in Primitives, q \in Primitives}
        \cup {Or(p, q) : p \in Primitives, q \in Primitives}
        \cup {Xor(p, q) : p \in Primitives, q \in Primitives}

InitLogic ==
    /\ P \in LogicPredicates
    /\ C = NoContext
    /\ unsafe_assert = FALSE
    /\ refs = EmptyBag
    /\ res = NoResult
    /\ tainted = FALSE

NextLogic ==
    \/ \E value \in LogicValues : CheckOp(value)
    \/ \E value \in LogicValues : IsFine(value)

SpecLogic == InitLogic /\ [][NextLogic]_vars

----------------------------------------------------------------------------
(* The claims about the combinators, under SpecLogic. *)

\* whether the last operation was check, at a predicate type built by `tag`
Checked(tag) == res.op = "check" /\ P[1] = tag

\* the results of the two (or the one) child predicates on the checked value
LeftResult == Check(P[2], res.arg)
RightResult == Check(P[3], res.arg)

\* C4: And<A, B>::check(v) is Err(Left(a)) with A's error a whenever A fails,
\* whatever B does; Err(Right(b)) with B's error b when A passes and B fails;
\* and Ok exactly when both pass.
AndShortCircuit ==
    Checked("And") =>
        /\ IsErr(LeftResult) => ~res.ok /\ res.error = Left(ErrOf(LeftResult))
        /\ IsOk(LeftResult) /\ IsErr(RightResult) =>
              ~res.ok /\ res.error = Right(ErrOf(RightResult))
        /\ res.ok <=> (IsOk(LeftResult) /\ IsOk(RightResult))

\* C4 witness: both sides fail, with different errors, and A's is reported
AndShortCircuitWitness ==
    /\ Checked("And")
    /\ IsErr(LeftResult) /\ IsErr(RightResult)
    /\ ErrOf(LeftResult) # ErrOf(RightResult)
    /\ res.error = Left(ErrOf(LeftResult))

\* C5: Or<A, B>::check(v) fails iff both A and B fail, and then the failure
\* is BothError { left: A's error, right: B's error }; otherwise it is Ok.
OrTotality ==
    Checked("Or") =>
        /\ ~res.ok <=> (IsErr(LeftResult) /\ IsErr(RightResult))
        /\ ~res.ok => res.error = BothError(ErrOf(LeftResult), ErrOf(RightResult))
        /\ res.ok => res.error = NoError

\* C5 witness: both sides fail with different errors and both are carried
OrTotalityWitness ==
    /\ Checked("Or")
    /\ ~res.ok
    /\ ErrOf(LeftResult) # ErrOf(RightResult)
    /\ res.error = BothError(ErrOf(LeftResult), ErrOf(RightResult))

\* Xor succeeds iff exactly one of A, B succeeds
XorExactlyOne ==
    res.ok <=> (IsOk(LeftResult) # IsOk(RightResult))

\* C6 as stated: Xor<A, B>::check(v) succeeds iff exactly one of A, B
\* succeeds, fails with the "neither" marker when both fail and with the
\* "both" marker when both succeed.
XorExclusivityAsStated ==
    Checked("Xor") =>
        /\ XorExactlyOne
        /\ IsErr(LeftResult) /\ IsErr(RightResult) => res.error = Neither
        /\ IsOk(LeftResult) /\ IsOk(RightResult) => res.error[1] = "Both"

\* C6 amended: Xor<A, B>::check(v) succeeds iff exactly one of A, B succeeds;
\* it fails with NeitherOrBoth::Neither ("neither error encountered") when
\* both succeed, and with NeitherOrBoth::Both carrying BothError { left: A's
\* error, right: B's error } when both fail.
XorExclusivity ==
    Checked("Xor") =>
        /\ XorExactlyOne
        /\ IsOk(LeftResult) /\ IsOk(RightResult) => res.error = Neither
        /\ IsErr(LeftResult) /\ IsErr(RightResult) =>
              res.error = Both(BothError(ErrOf(LeftResult), ErrOf(RightResult)))

\* C6 witness: both sides fail and Both carries the two errors
XorExclusivityWitness ==
    /\ Checked("Xor")
    /\ IsErr(LeftResult) /\ IsErr(RightResult)
    /\ ErrOf(LeftResult) # ErrOf(RightResult)
    /\ res.error = Both(BothError(ErrOf(LeftResult), ErrOf(RightResult)))

\* C7: Not<A>::check(v) succeeds iff A::check(v) fails, and its failure is
\* the fixed NotError, which carries nothing of A.
NotInversion ==
    Checked("Not") =>
        /\ res.ok <=> IsErr(LeftResult)
        /\ ~res.ok => res.error = NotError

\* C7 witness: A passes on a value and Not<A> fails with NotError
NotInversionWitness ==
    /\ Checked("Not")
    /\ P[2][1] \in CompareNames
    /\ IsOk(LeftResult)
    /\ res.error = NotError

\* the law of an interval whose bounds are m and n: Ok iff both bounds hold,
\* Left with the lower bound's error whenever the lower bound is violated,
\* Right with the upper bound's error when only the upper bound is violated
IntervalLaw(lowerHolds, upperHolds, lowerError, upperError) ==
    /\ res.ok <=> (lowerHolds /\ upperHolds)
    /\ ~lowerHolds => res.error = Left(lowerError)
    /\ lowerHolds /\ ~upperHolds => res.error = Right(upperError)

\* C8: ClosedOpen<M, N>::check(v) succeeds iff M <= v < N, Closed iff
\* M <= v <= N, Open iff M < v < N, OpenClosed iff M < v <= N; a v violating
\* the lower bound fails with Left carrying M (also when it violates the upper
\* bound too), a v violating only the upper bound with Right carrying N.
IntervalDecomposition ==
    \A m \in ConstParams, n \in ConstParams :
        LET v == res.arg
        IN  res.op = "check" =>
               /\ P = ClosedOpen(m, n) =>
                     IntervalLaw(m <= v, v < n,
                                 CompareError("GreaterOrEqualError", m),
                                 CompareError("LessError", n))
               /\ P = Closed(m, n) =>
                     IntervalLaw(m <= v, v <= n,
                                 CompareError("GreaterOrEqualError", m),
                                 CompareError("LessOrEqualError", n))
               /\ P = Open(m, n) =>
                     IntervalLaw(m < v, v < n,
                                 CompareError("GreaterError", m),
                                 CompareError("LessError", n))
               /\ P = OpenClosed(m, n) =>
                     IntervalLaw(m < v, v <= n,
                                 CompareError("GreaterError", m),
                                 CompareError("LessOrEqualError", n))

\* C8 witness: an empty interval (M > N) checked on a value below M and above
\* N, which violates both bounds and is reported as Left carrying M
IntervalDecompositionWitness ==
    \E m \in ConstParams, n \in ConstParams :
        /\ res.op = "check"
        /\ P = ClosedOpen(m, n)
        /\ n < res.arg /\ res.arg < m
        /\ res.error = Left(CompareError("GreaterOrEqualError", m))

----------------------------------------------------------------------------
(* The derived combinators: Nand, Nor, Xnor and Imply. *)

\* Nand that negates the disjunction
Nand_OfOr(p, q) == Not(Or(p, q))

\* type Nand<P, Q>
Nand(p, q) == Not(And(p, q))

\* type Nor<P, Q>
Nor(p, q) == Not(Or(p, q))

\* type Xnor<P, Q>
Xnor(p, q) == Not(Xor(p, q))

\* Imply with P and Q exchanged
Imply_Converse(p, q) == Or(Not(q), p)

\* type Imply<P, Q>
Imply(p, q) == Or(Not(p), q)

\* the predicates the derived combinators are built from
DerivedPrimitives ==
    {True, False} \cup {<<name, n>> : name \in CompareNames, n \in {-1, 1}}

DerivedPredicates ==
    {Nand(p, q) : p \in DerivedPrimitives, q \in DerivedPrimitives}
        \cup {Nor(p, q) : p \in DerivedPrimitives, q \in DerivedPrimitives}
        \cup {Xnor(p, q) : p \in DerivedPrimitives, q \in DerivedPrimitives}
        \cup {Imply(p, q) : p \in DerivedPrimitives, q \in DerivedPrimitives}

InitDerived ==
    /\ P \in DerivedPredicates
    /\ C = NoContext
    /\ unsafe_assert = FALSE
    /\ refs = EmptyBag
    /\ res = NoResult
    /\ tainted = FALSE

SpecDerived == InitDerived /\ [][NextLogic]_vars

\* C18: Nand<P, Q>::check(v) succeeds iff not both P and Q succeed, Nor iff
\* both fail, Xnor iff P and Q have the same outcome; each failure is the
\* fixed NotError.
DerivedNegations ==
    res.op = "check" =>
        \A p \in DerivedPrimitives, q \in DerivedPrimitives :
            LET left == IsOk(Check(p, res.arg))
                right == IsOk(Check(q, res.arg))
            IN  /\ P = Nand(p, q) =>
                      /\ res.ok <=> ~(left /\ right)
                      /\ ~res.ok => res.error = NotError
                /\ P = Nor(p, q) =>
                      /\ res.ok <=> (~left /\ ~right)
                      /\ ~res.ok => res.error = NotError
                /\ P = Xnor(p, q) =>
                      /\ res.ok <=> (left <=> right)
                      /\ ~res.ok => res.error = NotError

\* C18 witness: both sides pass and Nand fails with NotError
DerivedNegationsWitness ==
    /\ res.op = "check"
    /\ P = Nand(Greater(-1), Less(1))
    /\ res.arg = 0
    /\ ~res.ok
    /\ res.error = NotError

\* C19: Imply<P, Q>::check(v) succeeds iff P fails or Q succeeds; it fails
\* exactly when P succeeds and Q fails, with BothError { left: NotError,
\* right: Q's error }.
Implication ==
    res.op = "check" =>
        \A p \in DerivedPrimitives, q \in DerivedPrimitives :
            P = Imply(p, q) =>
                LET left == Check(p, res.arg)
                    right == Check(q, res.arg)
                IN  /\ res.ok <=> (IsErr(left) \/ IsOk(right))
                    /\ ~res.ok <=> (IsOk(left) /\ IsErr(right))
                    /\ ~res.ok => res.error = BothError(NotError, ErrOf(right))

\* C19 witness: P holds, Q does not, and Imply fails with Q's error on the right
ImplicationWitness ==
    /\ res.op = "check"
    /\ P = Imply(Greater(-1), Less(1))
    /\ res.arg = 2
    /\ res.error = BothError(NotError, CompareError(ErrorName("Less"), 1))

----------------------------------------------------------------------------
(* The character predicates. *)

\* the characters the predicates are checked on: digits, letters of both
\* cases, and characters that are a digit in no base
Chars == {"0", "1", "7", "8", "9", "a", "f", "g", "z", "A", "F", "Z", " ", "-"}

\* the bases Digit<B> is instantiated at: the default, OctDigit, HexDigit, the
\* least, the greatest, and bases outside 2 ..= 36
Bases == {0, 1, 2, 8, 10, 16, 36, 37}

\* the value of a character as a digit (char::to_digit before the radix is
\* applied): 0-9, then the letters of either case from 10; 36 for no digit
DigitValue(c) ==
    CASE c = "0" -> 0 [] c = "1" -> 1 [] c = "7" -> 7 [] c = "8" -> 8
      [] c = "9" -> 9
      [] c \in {"a", "A"} -> 10
      [] c \in {"f", "F"} -> 15
      [] c = "g" -> 16
      [] c \in {"z", "Z"} -> 35
      [] OTHER -> 36

\* char::is_digit(radix): panics for a radix above 36; for a radix below 2 it
\* panics or answers by the digit value, depending on the standard library
is_digit(c, radix) ==
    IF radix > 36
    THEN {Panic}
    ELSE IF radix < 2
         THEN {Panic, <<"Some", DigitValue(c) < radix>>}
         ELSE {<<"Some", DigitValue(c) < radix>>}

\* DigitError::new
DigitError(base) == <<"DigitError", base>>

\* Digit<B>
Digit(base) == <<"Digit", base>>

\* <Digit<B> as Predicate<char>>::check, given what is_digit did
CheckDigit(base, answer) ==
    IF answer = Panic
    THEN Panic
    ELSE IF answer[2] THEN Ok ELSE Err(DigitError(base))

\* Refinement::check(&value) at Digit<B>
CheckChar(value) ==
    /\ P[1] = "Digit"
    /\ \E answer \in is_digit(value, P[2]) :
          LET checked == CheckDigit(P[2], answer)
          IN  IF checked = Panic
              THEN res' = Aborted(value, "none")
              ELSE res' = Returned("check", value, "none", IsOk(checked), value,
                                   IF IsOk(checked) THEN NoError ELSE ErrOf(checked))
    /\ UNCHANGED <<P, C, unsafe_assert, refs, tainted>>

InitChar ==
    /\ P \in { Digit(base) : base \in Bases }
    /\ C = NoContext
    /\ unsafe_assert = FALSE
    /\ refs = EmptyBag
    /\ res = NoResult
    /\ tainted = FALSE

NextChar == \E value \in Chars : CheckChar(value)

SpecChar == InitChar /\ [][NextChar]_vars

\* C21 as stated: for every base B and every character c, checking c against
\* Digit<B> returns Ok iff c is a digit in base B and otherwise returns
\* Err(DigitError { base: B }).
DigitCheck ==
    /\ res.op # "abort"
    /\ res.op = "check" =>
          /\ res.ok <=> DigitValue(res.arg) < P[2]
          /\ ~res.ok => res.error = DigitError(P[2])

----------------------------------------------------------------------------
(* The string predicates. *)

\* the greatest length of the generated strings
MaxStrLen == 3

\* the characters the generated strings are made of
Alphabet == {"a", "b", " "}

RECURSIVE StringsUpTo(_)
\* every string over the alphabet of at most n characters
StringsUpTo(n) ==
    IF n = 0
    THEN {""}
    ELSE LET shorter == StringsUpTo(n - 1)
         IN  shorter \cup { string \o c : string \in shorter, c \in Alphabet }

\* the strings the predicates are checked on
Strings == StringsUpTo(MaxStrLen) \cup {"foobar", "barfoo", "foo", "\tab", "ab\t", "é"}

\* the predicate types: the S of StartsWith<S>, EndsWith<S>, Contains<S> and
\* the C of the character predicates range over a few patterns
StrPredicates ==
    { StartsWith(pattern) : pattern \in {"", "a", "ab", "foo"} }
        \cup { EndsWith(pattern) : pattern \in {"ab", "foo"} }
        \cup { Contains(pattern) : pattern \in {"ab", "foo"} }
        \cup { StartsWithChar("a"), EndsWithChar("a"), ContainsChar("a") }
        \cup { TrimmedStart, TrimmedEnd, Trimmed, Ascii }

InitStr ==
    /\ P \in StrPredicates
    /\ C = NoContext
    /\ unsafe_assert = FALSE
    /\ refs = EmptyBag
    /\ res = NoResult
    /\ tainted = FALSE

NextStr == \E value \in Strings : CheckOp(value)

SpecStr == InitStr /\ [][NextStr]_vars

\* C22: StartsWith<S>::check(s) returns Ok iff s begins with S::VALUE, and
\* otherwise Err(StartsWithError { prefix: S::VALUE }).
StartsWithCheck ==
    res.op = "check" /\ P[1] = "StartsWith" =>
        LET prefix == P[2]
            string == res.arg
            begins == /\ Len(string) >= Len(prefix)
                      /\ \A i \in 1 .. Len(prefix) : CharAt(string, i) = CharAt(prefix, i)
        IN  /\ res.ok <=> begins
            /\ ~res.ok => res.error = StartsWithError(prefix)
            /\ prefix = "foo" /\ string = "foobar" => res.ok
            /\ prefix = "foo" /\ string = "barfoo" =>
                  ~res.ok /\ res.error = <<"StartsWithError", "foo">>

\* C22 witness: "barfoo" was refused by StartsWith<"foo">, which it contains
StartsWithCheckWitness ==
    /\ res.op = "check"
    /\ P = StartsWith("foo")
    /\ res.arg = "barfoo"
    /\ res.error = StartsWithError("foo")

\* C23 as stated: TrimmedStart::check(s) returns Ok iff s has no leading
\* whitespace, whatever whitespace s has at its end.
TrimmedStartCheck ==
    res.op = "check" /\ P = TrimmedStart =>
        (res.ok <=> (Len(res.arg) = 0 \/ CharAt(res.arg, 1) \notin Whitespace))

\* C24 as stated: TrimmedEnd::check(s) returns Ok iff s has no trailing
\* whitespace, whatever whitespace s has at its start.
TrimmedEndCheck ==
    res.op = "check" /\ P = TrimmedEnd =>
        (res.ok <=> (Len(res.arg) = 0 \/ CharAt(res.arg, Len(res.arg)) \notin Whitespace))

----------------------------------------------------------------------------
(* The codes of the string predicates and of their failure types. *)

\* P::expect_code, written into a string; the failure of the last check is
\* kept at hand
ExpectCode ==
    /\ res' = Returned("expect_code", res.arg, "none", res.ok,
                       expect_code(P), res.error)
    /\ UNCHANGED <<P, C, unsafe_assert, refs, tainted>>

\* error.code() on the failure the last check returned (feature diagnostics)
DiagnosticCode ==
    /\ res.op = "check"
    /\ ~res.ok
    /\ res' = Returned("code", res.arg, "none", res.ok,
                       code(res.error), res.error)
    /\ UNCHANGED <<P, C, unsafe_assert, refs, tainted>>

NextStrCode ==
    \/ \E value \in Strings : CheckOp(value)
    \/ ExpectCode
    \/ DiagnosticCode

SpecStrCode == InitStr /\ [][NextStrCode]_vars

\* a predicate's code text agrees with a failure type's diagnostic code: the
\* same identifier, alone or followed by the parameter's value in brackets
Consistent(text, identifier, p) ==
    \/ text = identifier
    \/ Len(p) = 2 /\ text = identifier \o "<" \o p[2] \o ">"

\* C28 as stated: for every predicate of the str family, the text expect_code
\* writes is the diagnostic code of the predicate's failure type, with any
\* parameter rendered as its actual value.
CodeConsistency ==
    res.op = "expect_code" /\ res.error # NoError =>
        Consistent(res.value, code(res.error), P)

----------------------------------------------------------------------------
(* The n-ary macro and!. *)

RECURSIVE and_LeftNested(_)
\* and! that nests to the left: and!(P, Q, R) as And<And<P, Q>, R>
and_LeftNested(predicates) ==
    IF Len(predicates) = 2
    THEN And(predicates[1], predicates[2])
    ELSE And(and_LeftNested(SubSeq(predicates, 1, Len(predicates) - 1)),
             predicates[Len(predicates)])

RECURSIVE and(_)
\* and!($first, $second) and and!($first, $second, $($rest),+)
and(predicates) ==
    IF Len(predicates) = 2
    THEN And(predicates[1], predicates[2])
    ELSE And(predicates[1], and(Tail(predicates)))

\* the predicates and! is given
NaryPrimitives == {False, Greater(-1), Less(2), Equal(0), NotEqual(1)}

\* the argument lists of and!: three or four predicates
NaryLists ==
    [1 .. 3 -> NaryPrimitives] \cup [1 .. 4 -> NaryPrimitives]

InitNary ==
    /\ P \in { and(predicates) : predicates \in NaryLists }
    /\ C = NoContext
    /\ unsafe_assert = FALSE
    /\ refs = EmptyBag
    /\ res = NoResult
    /\ tainted = FALSE

SpecNary == InitNary /\ [][NextLogic]_vars

\* the positions of a list whose predicate fails on a value
Failing(predicates, value) ==
    { i \in 1 .. Len(predicates) : IsErr(Check(predicates[i], value)) }

\* the least of a non-empty set of positions
Least(positions) == CHOOSE i \in positions : \A j \in positions : i <= j

RECURSIVE NaryError(_, _, _)
\* the error of a list of n predicates whose i-th is the first to fail, with
\* e: Left(e) for the first, Right(Left(e)) for the second, ..., and
\* Right(...Right(e)) for the last
NaryError(n, i, e) ==
    IF i = 1
    THEN IF n = 1 THEN e ELSE Left(e)
    ELSE Right(NaryError(n - 1, i - 1, e))

\* C25: and!(P, Q, R) is And<P, And<Q, R>>: check succeeds iff all succeed,
\* and the error names the first failing predicate, Left(p), Right(Left(q))
\* or Right(Right(r)); likewise for four predicates.
NaryOrder ==
    res.op = "check" =>
        \A predicates \in NaryLists :
            P = and(predicates) =>
                LET failing == Failing(predicates, res.arg)
                IN  /\ res.ok <=> failing = {}
                    /\ failing # {} =>
                          LET first == Least(failing)
                          IN  res.error =
                                NaryError(Len(predicates), first,
                                          ErrOf(Check(predicates[first], res.arg)))

\* C25 witness: of three predicates the first two pass and the third fails
NaryOrderWitness ==
    /\ res.op = "check"
    /\ P = And(Greater(-1), And(Less(2), Equal(0)))
    /\ res.arg = 1
    /\ res.error = Right(Right(CompareError(ErrorName("Equal"), 0)))

----------------------------------------------------------------------------
(* Divisibility and parity. *)

\* type Divisible<D>
Divisible(d) == Modulo(d, 0)

\* type Even
Even == Divisible(2)

\* Odd as the remainder 1
Odd_Modulo == Modulo(2, 1)

\* type Odd
Odd == Not(Even)

\* type Positive
Positive == Greater(0)

\* the values of the signed type the predicates are checked on: the small
\* ones, -4, and the extremes
ParityValues == Values \cup {IntMin, IntMin + 1, -4, IntMax}

\* the values of the unsigned type of the same width: the small ones and
\* the greatest
UnsignedValues == (0 .. MaxAbs) \cup {Pow2(IntBits) - 1}

ParityPredicates ==
    { Even, Odd, Xor(Even, Positive) }
        \cup { Modulo(2, m) : m \in {-1, 1} }
        \cup { Divisible(d) : d \in {1, 3} }
        \cup { Not(Modulo(2, 1)) }

InitParity ==
    /\ P \in ParityPredicates
    /\ C = NoContext
    /\ unsafe_assert = FALSE
    /\ refs = EmptyBag
    /\ res = NoResult
    /\ tainted = FALSE

NextParity ==
    \/ \E value \in ParityValues : CheckOp(value)
    \/ \E value \in ParityValues : IsFine(value)
    \/ P \in {Even, Odd, Modulo(2, 1)} /\ \E value \in UnsignedValues : CheckOp(value)

SpecParity == InitParity /\ [][NextParity]_vars

\* whether an integer of the type is twice an integer
DivisibleByTwo(value) ==
    \E k \in (0 - Pow2(IntBits)) .. Pow2(IntBits) : value = 2 * k

\* C26: for every value of the signed type, negative ones and the least
\* included, Even::check succeeds iff the value is divisible by 2 and
\* Odd::check iff it is not, so that exactly one of them accepts it.
ParitySigned ==
    res.op = "check" /\ res.arg <= IntMax =>
        /\ P = Even => (res.ok <=> DivisibleByTwo(res.arg))
        /\ P = Odd => (res.ok <=> ~DivisibleByTwo(res.arg))
        /\ is_satisfied(Even, res.arg) # is_satisfied(Odd, res.arg)

\* C26 witness: Odd accepted a negative odd value
ParitySignedWitness ==
    /\ res.op = "check"
    /\ P = Odd
    /\ res.arg = IntMin + 1
    /\ res.ok

\* C30: Modulo<2, 1> compares the truncating remainder with 1: a negative
\* odd value fails it with ModuloError { divisor: 2, modulo: 1 } while Odd
\* accepts it; on non-negative values, and so on every value of an unsigned
\* type, Modulo<2, 1> and Odd accept the same values.
RemainderSign ==
    res.op = "check" /\ P = Modulo(2, 1) =>
        /\ res.arg < 0 /\ ~DivisibleByTwo(res.arg) =>
              /\ ~res.ok
              /\ res.error = ModuloError(2, 1)
              /\ is_satisfied(Odd, res.arg)
        /\ res.arg >= 0 => (res.ok <=> is_satisfied(Odd, res.arg))
        /\ res.ok <=> (res.arg > 0 /\ ~DivisibleByTwo(res.arg))

\* C30 witness: -1 was refused by Modulo<2, 1>
RemainderSignWitness ==
    /\ res.op = "check"
    /\ P = Modulo(2, 1)
    /\ res.arg = -1
    /\ res.error = ModuloError(2, 1)

====
